---- MODULE Spec2Model ----
(***************************************************************************)
(* VisualizationCallback of examples/mnist_gan/callbacks.py as a state     *)
(* machine: the callback object, the RunnerState it reads, and the         *)
(* add_image calls it makes on the tensorboard loggers.                    *)
(*                                                                         *)
(* Tensor values are kept in half units (the integer v stands for v/2), so *)
(* that the default denormalisation x / 2 + .5 of the values -1, 0 and 1   *)
(* is exact.  A tensor is a sequence (batch axis) of images, an image a    *)
(* sequence (width axis) of values; the channel and height axes carry no   *)
(* logic of the callback and are left out.                                 *)
(***************************************************************************)
EXTENDS Integers, Sequences, FiniteSets, TLC

VARIABLES
    ctor,             \* outcome of the last __init__ call: "pending", "ok" or the error raised
    args,             \* the arguments __init__ was called with
    input_keys,       \* self.input_keys
    output_keys,      \* self.output_keys
    batch_frequency,  \* self.batch_frequency
    concat_images,    \* self.concat_images
    max_images,       \* self.max_images
    denorm,           \* self.denorm: "default" (x / 2 + .5) or "identity" (x)
    n_row,            \* self._n_row
    loader_batch_count,   \* self._loader_batch_count
    loader_visualized,    \* self._loader_visualized_in_current_epoch
    loader_name,      \* state.loader_name
    loggers,          \* state.loggers: backend key -> the loader names that have a logger
    step,             \* state.step
    in_loader,        \* the runner is between on_loader_start and on_loader_end
    last,             \* what the last call on the callback did
    add_image_calls,  \* the add_image calls of the last call on the callback
    calls,            \* hook calls since the last _reset
    batch_ends,       \* on_batch_end calls since the last _reset
    passes            \* visualization passes completed since the last _reset

vars == <<ctor, args, input_keys, output_keys, batch_frequency, concat_images,
          max_images, denorm, n_row, loader_batch_count, loader_visualized,
          loader_name, loggers, step, in_loader, last, add_image_calls,
          calls, batch_ends, passes>>

config == <<ctor, args, input_keys, output_keys, batch_frequency, concat_images,
            max_images, denorm, n_row>>

host == <<loader_name, loggers, step>>

----------------------------------------------------------------------------
(* Bounds *)

MaxFreq == 3        \* largest batch_frequency argument tried
MaxCalls == 4       \* hook calls explored after each _reset
BatchSize == 2      \* images per tensor of the run state
MaxStep == 1        \* largest state.step

----------------------------------------------------------------------------
(* Python values passed to __init__ *)

PyNone == [type |-> "NoneType", str |-> "", items |-> << >>]
PyStr(s) == [type |-> "str", str |-> s, items |-> << >>]
PyInt == [type |-> "int", str |-> "", items |-> << >>]
PyList(xs) == [type |-> "list", str |-> "", items |-> xs]
PyTuple(xs) == [type |-> "tuple", str |-> "", items |-> xs]

StrItem(s) == [type |-> "str", str |-> s]
IntItem == [type |-> "int", str |-> ""]

Keys == {"a", "b", "c"}

KeyArgs ==
    { PyNone, PyStr("a"), PyInt,
      PyList(<< >>),
      PyList(<<StrItem("a"), StrItem("b")>>),
      PyList(<<StrItem("a"), StrItem("a")>>),
      PyTuple(<<StrItem("c")>>),
      PyList(<<StrItem("a"), IntItem>>) }

\* batch_frequency arguments, in halves: h stands for the number h / 2
FreqArgs == (-2) .. (2 * MaxFreq)

DenormArgs == {PyNone, PyStr("default"), PyStr("Default"), PyStr("none"),
               PyStr("NONE"), PyStr("sigmoid")}

\* max_images arguments: image counts from 1 up to the batch size, so that the
\* slice of line 110 both cuts and keeps the whole batch
MaxImagesArgs == 1 .. BatchSize

NRowArgs == {1}

CtorArgs ==
    [input_keys : KeyArgs, output_keys : KeyArgs, batch_frequency2 : FreqArgs,
     concat_images : BOOLEAN, max_images : MaxImagesArgs, n_row : NRowArgs,
     denorm : DenormArgs]

----------------------------------------------------------------------------
(* __init__ *)

\* str.lower() on the denorm strings tried
Lower(s) ==
    CASE s = "Default" -> "default"
      [] s = "NONE" -> "none"
      [] OTHER -> s

\* int(x) for x = h / 2: truncation towards zero
IntOf(h) == IF h >= 0 THEN h \div 2 ELSE -((-h) \div 2)

\* lines 23-34 and 36-47: one key argument to a list of keys, or the error raised
KeyList(arg) ==
    IF arg.type = "NoneType" THEN [error |-> "", keys |-> << >>]
    ELSE IF arg.type = "str" THEN [error |-> "", keys |-> <<arg.str>>]
    ELSE IF arg.type \in {"tuple", "list"} THEN
        IF \A i \in 1 .. Len(arg.items) : arg.items[i].type = "str"
        THEN [error |-> "", keys |-> [i \in 1 .. Len(arg.items) |-> arg.items[i].str]]
        ELSE [error |-> "AssertionError", keys |-> << >>]
    ELSE [error |-> "ValueError", keys |-> << >>]

\* lines 57-63: the denormalisation selected, or the error raised.
\* denorm.lower() is evaluated first, also when denorm is None.
DenormOf(arg) ==
    IF arg.type # "str" THEN [error |-> "AttributeError", fn |-> ""]
    ELSE IF Lower(arg.str) = "default" THEN [error |-> "", fn |-> "default"]
    ELSE IF arg.type = "NoneType" \/ Lower(arg.str) = "none"
         THEN [error |-> "", fn |-> "identity"]
    ELSE [error |-> "ValueError", fn |-> ""]

NoObject(err) ==
    [ctor |-> err, input_keys |-> << >>, output_keys |-> << >>,
     batch_frequency |-> 0, concat_images |-> FALSE, max_images |-> 0,
     denorm |-> "", n_row |-> 0]

\* lines 12-65, up to the call of _reset: the fields of the new object, or the
\* error that ends the construction
__init__(a) ==
    LET ik == KeyList(a.input_keys)
        ok == KeyList(a.output_keys)
        bf == IntOf(a.batch_frequency2)
        dn == DenormOf(a.denorm)
    IN  IF ik.error # "" THEN NoObject(ik.error)
        ELSE IF ok.error # "" THEN NoObject(ok.error)
        ELSE IF Len(ik.keys) + Len(ok.keys) = 0 THEN NoObject("ValueError")
        ELSE IF ~(bf > 0) THEN NoObject("AssertionError")
        ELSE IF dn.error # "" THEN NoObject(dn.error)
        ELSE [ctor |-> "ok", input_keys |-> ik.keys, output_keys |-> ok.keys,
              batch_frequency |-> bf, concat_images |-> a.concat_images,
              max_images |-> a.max_images, denorm |-> dn.fn, n_row |-> a.n_row]

\* mutant of _reset: the flag starts set
_reset_flag_set == [loader_batch_count |-> 0, loader_visualized_in_current_epoch |-> TRUE]

\* lines 67-69: the values _reset assigns
_reset == [loader_batch_count |-> 0, loader_visualized_in_current_epoch |-> FALSE]

\* no call on the callback yet
NoCall == [op |-> "", visualize |-> 0, error |-> "", error_loader |-> "",
           loader |-> "", step |-> 0, in_loader_before |-> FALSE,
           count_before |-> 0, visualized_before |-> FALSE, passes_before |-> 0]

Construct ==
    /\ ctor = "pending"
    /\ \E a \in CtorArgs :
        LET o == __init__(a)
        IN  /\ args' = a
            /\ ctor' = o.ctor
            /\ input_keys' = o.input_keys
            /\ output_keys' = o.output_keys
            /\ batch_frequency' = o.batch_frequency
            /\ concat_images' = o.concat_images
            /\ max_images' = o.max_images
            /\ denorm' = o.denorm
            /\ n_row' = o.n_row
            /\ IF o.ctor = "ok"
               THEN /\ loader_batch_count' = _reset.loader_batch_count
                    /\ loader_visualized' = _reset.loader_visualized_in_current_epoch
               ELSE UNCHANGED <<loader_batch_count, loader_visualized>>
    /\ UNCHANGED <<host, in_loader, last, add_image_calls, calls, batch_ends, passes>>

----------------------------------------------------------------------------
(* The run state the host hands to the hooks *)

TENSORBOARD_LOGGER_KEY == "tensorboard"

LoaderNames == {"train", "valid"}

\* the logger registries tried: backend key -> loader names with a logger
Registries ==
    { [k \in {} |-> {}],
      [k \in {"console"} |-> LoaderNames],
      [k \in {"tensorboard"} |-> {"train"}],
      [k \in {"tensorboard", "console"} |-> LoaderNames] }

KeyIndex(k) == CASE k = "a" -> 0 [] k = "b" -> 1 [] OTHER -> 2

\* widths of the tensors of the run state: a -> 1, b -> 2, c -> 3
Width(k) == KeyIndex(k) + 1

\* state.input[k] and state.output[k]: BatchSize images of Width(k) values
\* each, the values among -1, 0, 1 (-2, 0, 2 in half units).  The run state
\* holds a tensor under every key in both maps, and the tensors of one batch
\* agree on every axis but the width, as torch.cat requires.
state_input(k) ==
    [i \in 1 .. BatchSize |->
        [j \in 1 .. Width(k) |-> 2 * ((KeyIndex(k) + i + j) % 3) - 2]]

state_output(k) ==
    [i \in 1 .. BatchSize |->
        [j \in 1 .. Width(k) |-> 2 * ((KeyIndex(k) + i + j + 1) % 3) - 2]]

----------------------------------------------------------------------------
(* The visualization pass *)

\* lines 59 and 61: self.denorm on one value (half units: x / 2 + .5 is v / 2 + 1)
DenormValue(fn, v) == IF fn = "default" THEN v \div 2 + 1 ELSE v

\* self.denorm on a tensor, element by element
Denorm(fn, t) ==
    [i \in 1 .. Len(t) |-> [j \in 1 .. Len(t[i]) |-> DenormValue(fn, t[i][j])]]

\* "|".join(keys)
RECURSIVE Join(_)
Join(keys) ==
    IF Len(keys) = 0 THEN ""
    ELSE IF Len(keys) = 1 THEN keys[1]
    ELSE keys[1] \o "|" \o Join(Tail(keys))

\* mutant of Cat: the tensors are concatenated last to first
RECURSIVE Cat_reversed(_)
Cat_reversed(tensors) ==
    IF Len(tensors) = 1 THEN tensors[1]
    ELSE LET rest == Cat_reversed(Tail(tensors))
         IN  [i \in 1 .. Len(tensors[1]) |-> rest[i] \o tensors[1][i]]

\* torch.cat(tensors, dim=3): image by image, the widths one after the other
RECURSIVE Cat(_)
Cat(tensors) ==
    IF Len(tensors) = 1 THEN tensors[1]
    ELSE LET rest == Cat(Tail(tensors))
         IN  [i \in 1 .. Len(tensors[1]) |-> tensors[1][i] \o rest[i]]

\* mutant of DictSet: a list of pairs instead of a dict, a repeated key is kept twice
DictSet_append(d, k, v) == Append(d, [key |-> k, tensor |-> v])

\* d[k] = v on a dict kept as the sequence of its items in insertion order
DictSet(d, k, v) ==
    IF \E i \in 1 .. Len(d) : d[i].key = k
    THEN [i \in 1 .. Len(d) |-> IF d[i].key = k THEN [key |-> k, tensor |-> v] ELSE d[i]]
    ELSE Append(d, [key |-> k, tensor |-> v])

\* dict(pairs): the pairs inserted from the first to the last
RECURSIVE DictOf(_)
DictOf(pairs) ==
    IF Len(pairs) = 0 THEN << >>
    ELSE LET p == pairs[Len(pairs)]
         IN  DictSet(DictOf(SubSeq(pairs, 1, Len(pairs) - 1)), p.key, p.tensor)

\* lines 83-105
compute_visualizations ==
    LET input_tensors == [i \in 1 .. Len(input_keys) |-> state_input(input_keys[i])]
        output_tensors == [i \in 1 .. Len(output_keys) |-> state_output(output_keys[i])]
        all_keys == input_keys \o output_keys
        all_tensors == input_tensors \o output_tensors
    IN  IF concat_images
        THEN <<[key |-> Join(all_keys), tensor |-> Denorm(denorm, Cat(all_tensors))]>>
        ELSE DictOf([i \in 1 .. Len(all_keys) |->
                        [key |-> all_keys[i], tensor |-> Denorm(denorm, all_tensors[i])]])

\* mutant of _get_tensorboard_logger: only the backend key is looked up
_get_tensorboard_logger_backend_only ==
    IF TENSORBOARD_LOGGER_KEY \in DOMAIN loggers
    THEN [found |-> TRUE, logger |-> loader_name]
    ELSE [found |-> FALSE, logger |-> ""]

\* lines 71-81: the logger of the current loader, or none
_get_tensorboard_logger ==
    IF /\ TENSORBOARD_LOGGER_KEY \in DOMAIN loggers
       /\ loader_name \in loggers[TENSORBOARD_LOGGER_KEY]
    THEN [found |-> TRUE, logger |-> loader_name]
    ELSE [found |-> FALSE, logger |-> ""]

\* batch_images[:self.max_images]
Truncate(batch_images) ==
    SubSeq(batch_images, 1, IF max_images < Len(batch_images) THEN max_images
                            ELSE Len(batch_images))

\* torchvision.utils.make_grid(batch_images, nrow): the images and their arrangement
make_grid(batch_images, nrow) == [images |-> batch_images, nrow |-> nrow]

\* lines 107-112: the add_image calls made, or the RuntimeError of a missing logger
save_visualizations(visualizations) ==
    LET tb_logger == _get_tensorboard_logger
    IN  IF ~tb_logger.found
        THEN [error |-> "RuntimeError", error_loader |-> loader_name, added |-> << >>]
        ELSE [error |-> "", error_loader |-> "",
              added |-> [i \in 1 .. Len(visualizations) |->
                  [logger |-> tb_logger.logger,
                   tag |-> visualizations[i].key,
                   image |-> make_grid(Truncate(visualizations[i].tensor), n_row),
                   global_step |-> step]]]

\* the record of one call on the callback: the hook, the number of visualize
\* calls it made, the error it raised and the loader the error names, with the
\* run state and the counters the call started from
Call(op, n, error, error_loader) ==
    [op |-> op, visualize |-> n, error |-> error, error_loader |-> error_loader,
     loader |-> loader_name, step |-> step, in_loader_before |-> in_loader,
     count_before |-> loader_batch_count, visualized_before |-> loader_visualized,
     passes_before |-> passes]

\* mutant of visualize: the flag is set before save_visualizations is called
visualize_flag_first(op) ==
    LET saved == save_visualizations(compute_visualizations)
    IN  /\ add_image_calls' = saved.added
        /\ loader_visualized' = TRUE
        /\ passes' = IF saved.error = "" THEN passes + 1 ELSE passes
        /\ last' = Call(op, 1, saved.error, saved.error_loader)

\* lines 114-117: the flag is set only when save_visualizations returns
visualize(op) ==
    LET saved == save_visualizations(compute_visualizations)
    IN  /\ add_image_calls' = saved.added
        /\ loader_visualized' = IF saved.error = "" THEN TRUE ELSE loader_visualized
        /\ passes' = IF saved.error = "" THEN passes + 1 ELSE passes
        /\ last' = Call(op, 1, saved.error, saved.error_loader)

\* a hook that returns without a visualization pass
NoVisualize(op) ==
    /\ add_image_calls' = << >>
    /\ UNCHANGED <<loader_visualized, passes>>
    /\ last' = Call(op, 0, "", "")

----------------------------------------------------------------------------
(* The hooks *)

\* mutant of LoaderEndTrigger: every loader end forces a pass
LoaderEndTrigger_always(visualized) == TRUE

\* line 123: the condition under which on_loader_end calls visualize
LoaderEndTrigger(visualized) == ~visualized

\* lines 119-120
on_loader_start ==
    /\ ctor = "ok"
    /\ loader_batch_count' = _reset.loader_batch_count
    /\ loader_visualized' = _reset.loader_visualized_in_current_epoch
    /\ in_loader' = TRUE
    /\ calls' = 0
    /\ batch_ends' = 0
    /\ passes' = 0
    /\ add_image_calls' = << >>
    /\ last' = Call("on_loader_start", 0, "", "")
    /\ UNCHANGED <<config, host>>

\* lines 122-124
on_loader_end ==
    /\ ctor = "ok"
    /\ calls < MaxCalls
    /\ IF LoaderEndTrigger(loader_visualized)
       THEN visualize("on_loader_end")
       ELSE NoVisualize("on_loader_end")
    /\ in_loader' = FALSE
    /\ calls' = calls + 1
    /\ UNCHANGED <<config, host, loader_batch_count, batch_ends>>

\* line 128: the condition under which on_batch_end calls visualize
BatchTrigger(count, frequency) == (count % frequency) # 0

\* lines 126-129
on_batch_end ==
    /\ ctor = "ok"
    /\ calls < MaxCalls
    /\ loader_batch_count' = loader_batch_count + 1
    /\ IF BatchTrigger(loader_batch_count', batch_frequency)
       THEN visualize("on_batch_end")
       ELSE NoVisualize("on_batch_end")
    /\ calls' = calls + 1
    /\ batch_ends' = batch_ends + 1
    /\ UNCHANGED <<config, host, in_loader>>

\* lines 114-117, called by the host directly
Visualize ==
    /\ ctor = "ok"
    /\ calls < MaxCalls
    /\ visualize("visualize")
    /\ calls' = calls + 1
    /\ UNCHANGED <<config, host, in_loader, loader_batch_count, batch_ends>>

----------------------------------------------------------------------------
(* The host *)

\* the runner moves to another loader between two loader passes
HostSelectLoader ==
    /\ ~in_loader
    /\ \E n \in LoaderNames \ {loader_name} : loader_name' = n
    /\ UNCHANGED <<config, loggers, step, in_loader, last, add_image_calls, calls,
                   batch_ends, passes, loader_batch_count, loader_visualized>>

\* the runner's step counter only grows
HostAdvanceStep ==
    /\ step < MaxStep
    /\ step' = step + 1
    /\ UNCHANGED <<config, loggers, loader_name, in_loader, last, add_image_calls,
                   calls, batch_ends, passes, loader_batch_count, loader_visualized>>

----------------------------------------------------------------------------

NoArgs ==
    [input_keys |-> PyNone, output_keys |-> PyNone, batch_frequency2 |-> 0,
     concat_images |-> FALSE, max_images |-> 1, n_row |-> 1, denorm |-> PyNone]

\* the run state and the bookkeeping before the first hook is called
HostInit ==
    /\ loader_name \in LoaderNames
    /\ loggers \in Registries
    /\ step = 0
    /\ in_loader = FALSE
    /\ last = NoCall
    /\ add_image_calls = << >>
    /\ calls = 0
    /\ batch_ends = 0
    /\ passes = 0

\* no callback yet: __init__ is about to be called
CtorInit ==
    /\ ctor = "pending"
    /\ args = NoArgs
    /\ input_keys = << >>
    /\ output_keys = << >>
    /\ batch_frequency = 0
    /\ concat_images = FALSE
    /\ max_images = 0
    /\ denorm = ""
    /\ n_row = 0
    /\ loader_batch_count = 0
    /\ loader_visualized = FALSE
    /\ HostInit

\* the state right after __init__(a) returned the callback
Constructed(a) ==
    LET o == __init__(a)
    IN  /\ o.ctor = "ok"
        /\ ctor = o.ctor
        /\ args = a
        /\ input_keys = o.input_keys
        /\ output_keys = o.output_keys
        /\ batch_frequency = o.batch_frequency
        /\ concat_images = o.concat_images
        /\ max_images = o.max_images
        /\ denorm = o.denorm
        /\ n_row = o.n_row
        /\ loader_batch_count = _reset.loader_batch_count
        /\ loader_visualized = _reset.loader_visualized_in_current_epoch

\* the configurations whose hooks are explored: every frequency, both concat modes
HookArgs ==
    [input_keys : {PyStr("a"), PyList(<<StrItem("a"), StrItem("b")>>)},
     output_keys : {PyTuple(<<StrItem("c")>>)},
     batch_frequency2 : {2 * f : f \in 1 .. MaxFreq},
     concat_images : BOOLEAN, max_images : {1}, n_row : NRowArgs,
     denorm : {PyStr("default")}]

\* the configurations whose visualizations are explored: every key argument
VizArgs ==
    [input_keys : KeyArgs, output_keys : KeyArgs, batch_frequency2 : {2},
     concat_images : BOOLEAN, max_images : MaxImagesArgs, n_row : NRowArgs,
     denorm : {PyStr("default"), PyStr("none")}]

Init == HostInit /\ \E a \in HookArgs : Constructed(a)

VizInit == HostInit /\ \E a \in VizArgs : Constructed(a)

Next ==
    \/ on_loader_start
    \/ on_batch_end
    \/ on_loader_end
    \/ Visualize
    \/ HostSelectLoader
    \/ HostAdvanceStep

VizNext ==
    \/ Visualize
    \/ HostSelectLoader
    \/ HostAdvanceStep

\* the hooks of a constructed callback, called in any order
Spec == Init /\ [][Next]_vars

\* the constructor alone, on every argument combination
CtorSpec == CtorInit /\ [][Construct]_vars

\* the visualization pass alone, on every key configuration
VizSpec == VizInit /\ [][VizNext]_vars

----------------------------------------------------------------------------
(* Properties *)

\* a logger is registered for loader n under the tensorboard backend key
HasLogger(n) == "tensorboard" \in DOMAIN loggers /\ n \in loggers["tensorboard"]

\* C1: every on_batch_end call increments the batch counter by one and performs
\* a visualization pass exactly when the incremented counter is divisible by
\* batch_frequency.
C1_BatchEndFiresOnMultiples ==
    last.op = "on_batch_end" =>
        /\ loader_batch_count = last.count_before + 1
        /\ (last.visualize = 1) <=> (loader_batch_count % batch_frequency = 0)

\* C2: right after on_loader_start with a logger registered, batch_frequency calls
\* of on_batch_end make exactly one visualization pass, on the last of them.
C2_ExactlyOnePassInNCalls ==
    (/\ in_loader
     /\ HasLogger(loader_name)
     /\ calls = batch_ends
     /\ batch_ends = batch_frequency)
    => (passes = 1 /\ last.visualize = 1)

\* C3: with a logger registered, the on_loader_end that closes a loader pass makes
\* exactly one visualization pass when none happened since on_loader_start and
\* none otherwise, so that the loader pass holds at least one.
C3_LoaderEndForcesOnePass ==
    (/\ last.op = "on_loader_end"
     /\ last.in_loader_before
     /\ HasLogger(last.loader))
    => /\ last.passes_before = 0 =>
            /\ last.visualize = 1
            /\ last.error = ""
            /\ passes = 1
            /\ add_image_calls # << >>
       /\ last.passes_before > 0 =>
            /\ last.visualize = 0
            /\ passes = last.passes_before
            /\ add_image_calls = << >>
       /\ passes >= 1

\* C3 witness: a loader pass whose batches made no visualization, closed by an
\* on_loader_end that forced one
C3_Witness ==
    /\ last.op = "on_loader_end"
    /\ last.in_loader_before
    /\ HasLogger(last.loader)
    /\ batch_ends >= 1
    /\ last.passes_before = 0
    /\ last.visualize = 1
    /\ passes = 1

\* C4: right after on_loader_start, and right after construction, the batch
\* counter is 0 and the visualized flag is false, whatever they were before.
C4_ResetOnLoaderStart ==
    (ctor = "ok" /\ last.op \in {"", "on_loader_start"})
    => (loader_batch_count = 0 /\ loader_visualized = FALSE)

\* C4 witness: on_loader_start called with a counter above zero and the flag set
C4_Witness ==
    /\ last.op = "on_loader_start"
    /\ last.count_before > 0
    /\ last.visualized_before
    /\ loader_batch_count = 0
    /\ ~loader_visualized

\* the key arguments the constructor accepts: absent, a string, or a list or
\* tuple of strings
AcceptedKeyArg(k) ==
    \/ k.type \in {"NoneType", "str"}
    \/ /\ k.type \in {"list", "tuple"}
       /\ \A i \in 1 .. Len(k.items) : k.items[i].type = "str"

\* the number of keys an accepted key argument gives
KeyCount(k) ==
    IF k.type = "NoneType" THEN 0 ELSE IF k.type = "str" THEN 1 ELSE Len(k.items)

\* the denormalisation modes the configuration names: default, none (in any
\* letter case) and absent
RecognizedDenorm ==
    {PyNone, PyStr("default"), PyStr("Default"), PyStr("none"), PyStr("NONE")}

NoneDenorm == {PyNone, PyStr("none"), PyStr("NONE")}

\* a positive integer batch frequency (in halves: an even h above 0)
PositiveFrequency(h) == h > 0 /\ h % 2 = 0

ValidKeys(a) ==
    /\ AcceptedKeyArg(a.input_keys)
    /\ AcceptedKeyArg(a.output_keys)
    /\ KeyCount(a.input_keys) + KeyCount(a.output_keys) >= 1

\* C5: construction succeeds for accepted key arguments with at least one key, a
\* positive batch_frequency and a recognized denorm mode; it fails for an empty
\* combined key set, a key argument of a wrong type, batch_frequency <= 0 or an
\* unknown denorm string.
C5_ConstructionOutcome ==
    ctor # "pending" =>
        /\ (/\ ValidKeys(args)
            /\ PositiveFrequency(args.batch_frequency2)
            /\ args.denorm \in RecognizedDenorm) => ctor = "ok"
        /\ (\/ ~ValidKeys(args)
            \/ args.batch_frequency2 <= 0
            \/ (args.denorm.type = "str" /\ args.denorm \notin RecognizedDenorm))
           => ctor \in {"ValueError", "AssertionError", "AttributeError"}

\* C6: with denorm "none" in any letter case, or absent, and otherwise valid
\* arguments, construction succeeds and selects the denormalisation that leaves
\* every value unchanged.
C6_NoneDenormIsIdentity ==
    (/\ ctor # "pending"
     /\ ValidKeys(args)
     /\ PositiveFrequency(args.batch_frequency2)
     /\ args.denorm \in NoneDenorm)
    => /\ ctor = "ok"
       /\ \A v \in {-2, 0, 2} : DenormValue(denorm, v) = v

----------------------------------------------------------------------------

\* the gathered tensors and their keys, input keys first, in construction order
NumSources == Len(input_keys) + Len(output_keys)

SrcKey(s) ==
    IF s <= Len(input_keys) THEN input_keys[s] ELSE output_keys[s - Len(input_keys)]

Src(s) ==
    IF s <= Len(input_keys) THEN state_input(input_keys[s])
    ELSE state_output(output_keys[s - Len(input_keys)])

\* the summed width of the gathered tensors before the s-th
RECURSIVE WidthBefore(_)
WidthBefore(s) == IF s <= 1 THEN 0 ELSE WidthBefore(s - 1) + Len(Src(s - 1)[1])

\* the first n keys joined with "|"
RECURSIVE NameUpTo(_)
NameUpTo(n) == IF n = 1 THEN SrcKey(1) ELSE NameUpTo(n - 1) \o "|" \o SrcKey(n)

\* C7: with concat_images set, compute_visualizations returns exactly one entry;
\* its key is the input keys then the output keys joined with "|", its tensor
\* holds, image by image, the (denormalised) values of the gathered tensors side
\* by side in that order, its width the sum of their widths.
C7_ConcatSingleEntry ==
    (ctor = "ok" /\ concat_images) =>
        LET v == compute_visualizations
        IN  /\ Len(v) = 1
            /\ v[1].key = NameUpTo(NumSources)
            /\ Len(v[1].tensor) = BatchSize
            /\ \A i \in 1 .. BatchSize :
                /\ Len(v[1].tensor[i]) = WidthBefore(NumSources + 1)
                /\ \A s \in 1 .. NumSources : \A j \in 1 .. Len(Src(s)[i]) :
                      v[1].tensor[i][WidthBefore(s) + j] = DenormValue(denorm, Src(s)[i][j])

\* C7 witness: input keys a, b and output key c visualized as one image of width 6
C7_Witness ==
    /\ concat_images
    /\ input_keys = <<"a", "b">>
    /\ output_keys = <<"c">>
    /\ last.op = "visualize"
    /\ last.error = ""
    /\ Len(add_image_calls) = 1
    /\ add_image_calls[1].tag = "a|b|c"
    /\ Len(add_image_calls[1].image.images[1]) = 6

\* C8: a visualization pass requested while no logger is registered for the
\* current loader fails with a RuntimeError naming the loader, submits no image,
\* is attempted once, and leaves the visualized flag as it was.
C8_MissingLoggerFails ==
    (last.visualize >= 1 /\ ~HasLogger(last.loader)) =>
        /\ last.visualize = 1
        /\ last.error = "RuntimeError"
        /\ last.error_loader = last.loader
        /\ add_image_calls = << >>
        /\ loader_visualized = last.visualized_before
        /\ passes = last.passes_before

\* C8 witness: on_batch_end asks for a pass on loader valid, which has no logger
\* although the tensorboard backend is registered
C8_Witness ==
    /\ last.op = "on_batch_end"
    /\ last.visualize = 1
    /\ last.loader = "valid"
    /\ "tensorboard" \in DOMAIN loggers
    /\ ~HasLogger("valid")
    /\ last.error = "RuntimeError"
    /\ ~loader_visualized

\* the key names configured, and the last gathered tensor of each
KeyNames == {SrcKey(s) : s \in 1 .. NumSources}

FirstSource(k) == CHOOSE s \in 1 .. NumSources :
    SrcKey(s) = k /\ \A t \in 1 .. NumSources : SrcKey(t) = k => s <= t

LastSource(k) == CHOOSE s \in 1 .. NumSources :
    SrcKey(s) = k /\ \A t \in 1 .. NumSources : SrcKey(t) = k => t <= s

\* the image submitted for tensor t: its first max_images images, denormalised
SubmittedImages(t) ==
    [i \in 1 .. (IF max_images < Len(t) THEN max_images ELSE Len(t)) |->
        [j \in 1 .. Len(t[i]) |-> DenormValue(denorm, t[i][j])]]

\* C9 as stated: with concat_images unset, a successful pass submits exactly one
\* add_image call per gathered tensor, tagged with its key and the current step,
\* to the logger of the current loader, also when a key name is configured twice.
C9_OneImagePerGatheredTensor ==
    (last.visualize = 1 /\ last.error = "" /\ ~concat_images) =>
        /\ Len(add_image_calls) = NumSources
        /\ \A s \in 1 .. NumSources :
            /\ add_image_calls[s].tag = SrcKey(s)
            /\ add_image_calls[s].logger = last.loader
            /\ add_image_calls[s].global_step = last.step

\* C9 amended: with concat_images unset, a successful pass submits exactly one
\* add_image call per distinct key name, in the order the names first appear,
\* each with the tensor gathered last under that name, tagged with the name and
\* the current step, to the logger registered for the current loader.
C9_OneImagePerKeyName ==
    (last.visualize = 1 /\ last.error = "" /\ ~concat_images) =>
        /\ HasLogger(last.loader)
        /\ Len(add_image_calls) = Cardinality(KeyNames)
        /\ \A k \in KeyNames :
            Cardinality({i \in 1 .. Len(add_image_calls) : add_image_calls[i].tag = k}) = 1
        /\ \A i \in 1 .. Len(add_image_calls) :
            LET c == add_image_calls[i]
            IN  /\ c.tag \in KeyNames
                /\ c.logger = last.loader
                /\ c.global_step = last.step
                /\ c.image.images = SubmittedImages(Src(LastSource(c.tag)))
                /\ \A j \in 1 .. Len(add_image_calls) :
                      i < j => FirstSource(c.tag) < FirstSource(add_image_calls[j].tag)
        /\ Cardinality(KeyNames) = NumSources =>
            \A s \in 1 .. NumSources : add_image_calls[s].tag = SrcKey(s)

\* C9 witness: key a configured as input and as output, one image submitted
C9_Witness ==
    /\ ~concat_images
    /\ input_keys = <<"a", "b">>
    /\ output_keys = <<"a">>
    /\ last.visualize = 1
    /\ last.error = ""
    /\ Len(add_image_calls) = 2
    /\ add_image_calls[1].tag = "a"
    /\ add_image_calls[2].tag = "b"

\* C10: the visualized flag is set exactly when a visualization pass completed
\* since the last on_loader_start or construction, and the batch counter is the
\* number of on_batch_end calls since then.
C10_FlagAndCounterTrack ==
    ctor = "ok" =>
        /\ loader_visualized <=> (passes >= 1)
        /\ loader_batch_count = batch_ends

\* C10 witness: a pass failed for a missing logger after two batches, the flag
\* still unset
C10_Witness ==
    /\ batch_ends = 2
    /\ loader_batch_count = 2
    /\ last.visualize = 1
    /\ last.error = "RuntimeError"
    /\ passes = 0
    /\ ~loader_visualized

====
